---- MODULE Spec2Model ----
(***************************************************************************)
(* Model of the personal expense tracker (src/main.py): the in-memory     *)
(* store (expenses, monthly_budget), the CSV file it is saved to and       *)
(* loaded from, and the menu loop of run().                                *)
(*                                                                         *)
(* Text is modelled character by character: a string is a sequence of      *)
(* one-character strings, the file is one such sequence, and save and load *)
(* are the csv writer and reader working on those characters.  A float is  *)
(* an exact number of hundredths (or nan); the inputs of the model are     *)
(* multiples of 0.25, which binary floating point also represents and adds *)
(* exactly.                                                                *)
(***************************************************************************)
EXTENDS Integers, Sequences, FiniteSets, TLC

(***************************************************************************)
(* Bounds of the model.                                                    *)
(***************************************************************************)
\* The most records the store holds before add_expense is no longer offered.
MaxExpenses == 2
\* The most data rows of a startup file.
MaxRows == 2

(***************************************************************************)
(* Python values held in a row dictionary or in monthly_budget.            *)
(***************************************************************************)
StrV(cs)  == [t |-> "str",   s |-> cs,   n |-> 0, l |-> <<>>]
FloatV(h) == [t |-> "float", s |-> <<>>, n |-> h, l |-> <<>>]
IntV(i)   == [t |-> "int",   s |-> <<>>, n |-> i, l |-> <<>>]
ListV(ss) == [t |-> "list",  s |-> <<>>, n |-> 0, l |-> ss]
NaN       == [t |-> "nan",   s |-> <<>>, n |-> 0, l |-> <<>>]
None      == [t |-> "none",  s |-> <<>>, n |-> 0, l |-> <<>>]

IsNumber(v) == v.t \in {"float", "int", "nan"}

\* bool(v): None, 0, 0.0, '' and [] are falsy; nan is truthy.
Truthy(v) ==
    CASE v.t = "none"  -> FALSE
      [] v.t = "str"   -> v.s # <<>>
      [] v.t = "list"  -> v.l # <<>>
      [] v.t = "nan"   -> TRUE
      [] OTHER         -> v.n # 0

\* a == b on numbers: an int equals the float of the same value, nan equals nothing.
NumEq(a, b) == a.t # "nan" /\ b.t # "nan" /\ a.n = b.n
\* a <= b and a > b on numbers: every comparison with nan is False.
NumLe(a, b) == a.t # "nan" /\ b.t # "nan" /\ a.n <= b.n
NumGt(a, b) == a.t # "nan" /\ b.t # "nan" /\ a.n > b.n
\* a + b and a - b in float arithmetic: nan propagates.
NumAdd(a, b) == IF a.t = "nan" \/ b.t = "nan" THEN NaN ELSE FloatV(a.n + b.n)
NumSub(a, b) == IF a.t = "nan" \/ b.t = "nan" THEN NaN ELSE FloatV(a.n - b.n)

(***************************************************************************)
(* Strings.                                                                *)
(***************************************************************************)
\* The whitespace str.strip() and float() remove.
Whitespace == {" ", "\t", "\n", "\r", "\f"}
\* The line boundaries of str.splitlines().
LineBreaks == {"\n", "\r", "\f"}
Digits == {"0", "1", "2", "3", "4", "5", "6", "7", "8", "9"}
DigitVal(c) ==
    CASE c = "0" -> 0 [] c = "1" -> 1 [] c = "2" -> 2 [] c = "3" -> 3
      [] c = "4" -> 4 [] c = "5" -> 5 [] c = "6" -> 6 [] c = "7" -> 7
      [] c = "8" -> 8 [] c = "9" -> 9
DigitChar(d) == <<"0", "1", "2", "3", "4", "5", "6", "7", "8", "9">>[d + 1]

RECURSIVE Concat(_)
\* ''.join(ss)
Concat(ss) == IF ss = <<>> THEN <<>> ELSE Head(ss) \o Concat(Tail(ss))

RECURSIVE LStrip(_)
LStrip(s) == IF s # <<>> /\ Head(s) \in Whitespace THEN LStrip(Tail(s)) ELSE s
RECURSIVE RStrip(_)
RStrip(s) ==
    IF s # <<>> /\ s[Len(s)] \in Whitespace THEN RStrip(SubSeq(s, 1, Len(s) - 1)) ELSE s
\* s.strip()
Strip(s) == RStrip(LStrip(s))

\* s.startswith(p)
StartsWith(s, p) == Len(s) >= Len(p) /\ SubSeq(s, 1, Len(p)) = p

\* The least element of a non-empty set of integers.
Least(S) == CHOOSE i \in S : \A j \in S : i <= j
\* The index of the first c in s at or after i, or Len(s) + 1.
Find(s, c, i) == Least({j \in i..Len(s) : s[j] = c} \cup {Len(s) + 1})

\* s.split(c)
RECURSIVE Split(_, _)
Split(s, c) ==
    LET i == Find(s, c, 1)
    IN  IF i > Len(s) THEN <<s>>
        ELSE <<SubSeq(s, 1, i - 1)>> \o Split(SubSeq(s, i + 1, Len(s)), c)

AllDigits(s) == \A i \in 1..Len(s) : s[i] \in Digits
\* int(s) of a digit string ('' counts as 0).
RECURSIVE DigitsVal(_)
DigitsVal(s) ==
    IF s = <<>> THEN 0 ELSE 10 * DigitsVal(SubSeq(s, 1, Len(s) - 1)) + DigitVal(s[Len(s)])
\* str(n) of a natural number.
RECURSIVE NatStr(_)
NatStr(n) == IF n < 10 THEN <<DigitChar(n)>> ELSE NatStr(n \div 10) \o <<DigitChar(n % 10)>>

(***************************************************************************)
(* float(text) and str(number).                                            *)
(***************************************************************************)
\* float() of the digits before and after the point: both are digits only and
\* there is at least one.  The value is in hundredths; the texts of this
\* model carry at most two fractional digits (further digits would be cut).
FloatOfParts(ip, fp, neg) ==
    IF AllDigits(ip) /\ AllDigits(fp) /\ Len(ip) + Len(fp) >= 1
    THEN [ok |-> TRUE,
          v  |-> FloatV((IF neg THEN -1 ELSE 1)
                        * (100 * DigitsVal(ip) + DigitsVal(SubSeq(fp \o <<"0", "0">>, 1, 2))))]
    ELSE [ok |-> FALSE, v |-> None]
\* float() of the text after the sign, cut at the first point (dot).
FloatOfBody(body, dot, neg) ==
    IF body = <<"n","a","n">> THEN [ok |-> TRUE, v |-> NaN]
    ELSE FloatOfParts(SubSeq(body, 1, dot - 1), SubSeq(body, dot + 1, Len(body)), neg)
\* float() of text without surrounding whitespace: a sign is optional.
FloatOfStripped(t) ==
    IF t # <<>> /\ Head(t) \in {"-", "+"}
    THEN FloatOfBody(Tail(t), Find(Tail(t), ".", 1), Head(t) = "-")
    ELSE FloatOfBody(t, Find(t, ".", 1), FALSE)
\* float(s) on fixed-point decimal text and "nan": surrounding whitespace is
\* dropped, a sign is optional, there is at most one point and at least one
\* digit; anything else raises ValueError (ok = FALSE).
ParseFloat(s) == FloatOfStripped(Strip(s))

\* str(v) of a number, as an f-string and the csv writer format it: the
\* shortest repr of a float always shows a point ("5.0", "12.5", "0.25"),
\* an int shows none ("0").
NumStr(v) ==
    LET a    == IF v.n < 0 THEN 0 - v.n ELSE v.n
        sign == IF v.n < 0 THEN <<"-">> ELSE <<>>
        frac == a % 100
        fs   == IF frac % 10 = 0 THEN <<DigitChar(frac \div 10)>>
                ELSE <<DigitChar(frac \div 10), DigitChar(frac % 10)>>
    IN  CASE v.t = "nan" -> <<"n","a","n">>
          [] v.t = "int" -> sign \o NatStr(a)
          [] OTHER       -> sign \o NatStr(a \div 100) \o <<".">> \o fs

(***************************************************************************)
(* Reading the file: open(filename, 'r') and file.readlines().             *)
(***************************************************************************)
\* Text mode with the default newline=None: "\r\n" and a lone "\r" are read
\* as "\n".
UniversalNewlines(s) ==
    LET keep == SelectSeq([i \in 1..Len(s) |-> i],
                          LAMBDA i : ~(s[i] = "\n" /\ i > 1 /\ s[i - 1] = "\r"))
    IN  [k \in 1..Len(keep) |-> IF s[keep[k]] = "\r" THEN "\n" ELSE s[keep[k]]]

\* readlines(): the lines, each with its "\n" (the last one may have none).
RECURSIVE ReadLines(_)
ReadLines(s) ==
    IF s = <<>> THEN <<>>
    ELSE LET i == Find(s, "\n", 1)
         IN  IF i > Len(s) THEN <<s>>
             ELSE <<SubSeq(s, 1, i)>> \o ReadLines(SubSeq(s, i + 1, Len(s)))

\* The index of the first line boundary of s, or Len(s) + 1.
FindBreak(s) == Least({j \in 1..Len(s) : s[j] \in LineBreaks} \cup {Len(s) + 1})

\* s.splitlines(): the lines without their ends; "\r\n" is one boundary and
\* a boundary at the very end opens no further line.
RECURSIVE SplitLines(_)
SplitLines(s) ==
    IF s = <<>> THEN <<>>
    ELSE LET i == FindBreak(s)
             j == IF i < Len(s) /\ s[i] = "\r" /\ s[i + 1] = "\n" THEN i + 2 ELSE i + 1
         IN  IF i > Len(s) THEN <<s>>
             ELSE <<SubSeq(s, 1, i - 1)>> \o SplitLines(SubSeq(s, j, Len(s)))

(***************************************************************************)
(* csv.reader and csv.DictReader (dialect excel: delimiter ',', quotechar  *)
(* '"', doublequote, not strict), as load_expenses uses them.              *)
(***************************************************************************)
\* The end of one input line, as the reader's state machine sees it.
EOL == "EOL"

\* parse_reset: the reader's state at the start of a record.
ReaderStart == [st |-> "START_RECORD", field |-> <<>>, fields |-> <<>>]

\* parse_save_field and parse_add_char, each with the state to go to.
SaveField(p, st) == [st |-> st, field |-> <<>>, fields |-> Append(p.fields, p.field)]
AddChar(p, c, st) == [p EXCEPT !.field = Append(@, c), !.st = st]

\* parse_process_char: one step of the reader on character c.  The lines
\* it is given come from splitlines() and hold no "\n" or "\r", so the
\* branches for a line end inside a line are left out.  On a blank line the
\* state stays START_RECORD and the record is the empty list.
ReaderStep(p, c) ==
    CASE p.st \in {"START_RECORD", "START_FIELD"} ->
            IF c = EOL
            THEN IF p.st = "START_RECORD" THEN p ELSE SaveField(p, "START_RECORD")
            ELSE IF c = "\"" THEN [p EXCEPT !.st = "IN_QUOTED_FIELD"]
            ELSE IF c = "," THEN SaveField(p, "START_FIELD")
            ELSE AddChar(p, c, "IN_FIELD")
      [] p.st = "IN_FIELD" ->
            IF c = EOL THEN SaveField(p, "START_RECORD")
            ELSE IF c = "," THEN SaveField(p, "START_FIELD")
            ELSE AddChar(p, c, "IN_FIELD")
      [] p.st = "IN_QUOTED_FIELD" ->
            IF c = EOL THEN p
            ELSE IF c = "\"" THEN [p EXCEPT !.st = "QUOTE_IN_QUOTED_FIELD"]
            ELSE AddChar(p, c, "IN_QUOTED_FIELD")
      [] p.st = "QUOTE_IN_QUOTED_FIELD" ->
            IF c = "\"" THEN AddChar(p, c, "IN_QUOTED_FIELD")
            ELSE IF c = "," THEN SaveField(p, "START_FIELD")
            ELSE IF c = EOL THEN SaveField(p, "START_RECORD")
            ELSE AddChar(p, c, "IN_FIELD")

\* The reader's state and position after the characters of line from i on,
\* up to and including the one that saves a field, or to the end of line.
RECURSIVE ReaderField(_, _, _)
FieldOrOn(p, q, line, i) ==
    IF Len(q.fields) # Len(p.fields) THEN [p |-> q, i |-> i + 1]
    ELSE ReaderField(q, line, i + 1)
ReaderField(p, line, i) ==
    IF i > Len(line) THEN [p |-> p, i |-> i]
    ELSE FieldOrOn(p, ReaderStep(p, line[i]), line, i)

\* The reader's state after the characters of line from i on, from state p.
RECURSIVE ReaderLine(_, _, _)
LineOn(r, line) == ReaderLine(r.p, line, r.i)
ReaderLine(p, line, i) ==
    IF i > Len(line) THEN p ELSE LineOn(ReaderField(p, line, i), line)

\* Reader.__next__ from line k on, in state p: lines are taken until the
\* state is START_RECORD again.  After a line end the state is START_RECORD
\* or IN_QUOTED_FIELD; when the input ends inside a quoted field the record
\* is closed as it stands.  The result is the record and the index of the
\* next line.
RECURSIVE ReaderNext(_, _, _)
RecordOrOn(q, lines, k) ==
    IF q.st = "START_RECORD" THEN [fields |-> q.fields, next |-> k + 1]
    ELSE IF k < Len(lines) THEN ReaderNext(q, lines, k + 1)
    ELSE [fields |-> Append(q.fields, q.field), next |-> k + 1]
ReaderNext(p, lines, k) ==
    RecordOrOn(ReaderStep(ReaderLine(p, lines[k], 1), EOL), lines, k)

\* list(csv.reader(lines)) from line k on: every record, the empty records
\* of blank lines included.
RECURSIVE ReaderRows(_, _)
RowsOn(r, lines) == <<r.fields>> \o ReaderRows(lines, r.next)
ReaderRows(lines, k) ==
    IF k > Len(lines) THEN <<>> ELSE RowsOn(ReaderNext(ReaderStart, lines, k), lines)
CsvReader(lines) == ReaderRows(lines, 1)

\* The key DictReader files surplus fields under (restkey=None).
RestKey == <<"None">>

\* The dictionary DictReader makes of one row: dict(zip(fieldnames, row)),
\* so of two equal field names the later one counts; surplus fields go as a
\* list under restkey, missing ones are restval=None.
LastNamed(names, k) == CHOOSE i \in 1..Len(names) : names[i] = k /\ \A j \in (i + 1)..Len(names) : names[j] # k
ZipDict(names, row) ==
    [k \in {names[i] : i \in 1..Len(names)} |->
        IF LastNamed(names, k) <= Len(row) THEN StrV(row[LastNamed(names, k)]) ELSE None]
RowDict(names, row) ==
    IF Len(names) < Len(row)
    THEN (RestKey :> ListV(SubSeq(row, Len(names) + 1, Len(row)))) @@ ZipDict(names, row)
    ELSE ZipDict(names, row)

\* The dictionaries of the data rows under the field names.
RowDicts(names, data) == [i \in 1..Len(data) |-> RowDict(names, data[i])]
\* list(csv.DictReader(lines)): the first row names the fields, blank rows
\* after it are passed over.
DictRows(rows) ==
    IF rows = <<>> THEN <<>>
    ELSE RowDicts(rows[1], SelectSeq(Tail(rows), LAMBDA r : r # <<>>))
DictReader(lines) == DictRows(CsvReader(lines))

(***************************************************************************)
(* The store and its file.                                                 *)
(***************************************************************************)
DATE        == <<"d","a","t","e">>
CATEGORY    == <<"c","a","t","e","g","o","r","y">>
AMOUNT      == <<"a","m","o","u","n","t">>
DESCRIPTION == <<"d","e","s","c","r","i","p","t","i","o","n">>
\* fieldnames of save_expenses; also the keys a record needs to be counted.
fieldnames == <<DATE, CATEGORY, AMOUNT, DESCRIPTION>>
BudgetMark == <<"#","B","U","D","G","E","T",",">>

\* expenses.csv: absent, or present with its characters.
NoFile == [exists |-> FALSE, content |-> <<>>]
FileOf(cs) == [exists |-> TRUE, content |-> cs]

\* The last line that starts with "#BUDGET,", as a one-element sequence, or
\* <<>> when there is none (budget_line = None).
LastOf(marks) == IF marks = <<>> THEN <<>> ELSE <<marks[Len(marks)]>>
LastBudgetLine(lines) == LastOf(SelectSeq(lines, LAMBDA ln : StartsWith(ln, BudgetMark)))

\* float(budget_line.split(',')[1].strip()), 0 on ValueError.  The line
\* starts with "#BUDGET," and so always has a second part.
FloatOrZero(r) == IF r.ok THEN r.v ELSE IntV(0)
BudgetOf(budget_line) == FloatOrZero(ParseFloat(Strip(Split(budget_line, ",")[2])))

\* The loop over the rows of the DictReader: a row without the key 'amount'
\* (KeyError) or with text float() rejects (ValueError) is reported and
\* passed over; a row whose amount is None makes float() raise TypeError,
\* which only the outer handler catches, so the loop ends there.
RECURSIVE LoadRows(_, _, _)
LoadRow(rows, i, acc, r) ==
    IF r.ok
    THEN LoadRows(rows, i + 1,
                  [acc EXCEPT !.expenses = Append(@, [rows[i] EXCEPT ![AMOUNT] = r.v])])
    ELSE LoadRows(rows, i + 1, [acc EXCEPT !.skipped = Append(@, rows[i])])
LoadRows(rows, i, acc) ==
    IF i > Len(rows) THEN acc
    ELSE IF AMOUNT \notin DOMAIN rows[i]
         THEN LoadRows(rows, i + 1, [acc EXCEPT !.skipped = Append(@, rows[i])])
         ELSE IF rows[i][AMOUNT].t # "str"
              THEN [acc EXCEPT !.error = TRUE]
              ELSE LoadRow(rows, i, acc, ParseFloat(rows[i][AMOUNT].s))

\* The rows load_expenses iterates over: the lines that are not budget
\* lines, joined, split again and read by a DictReader.
CsvRows(csv_lines) ==
    IF csv_lines # <<>> THEN DictReader(SplitLines(Concat(csv_lines))) ELSE <<>>
FileRows(f) ==
    CsvRows(SelectSeq(ReadLines(UniversalNewlines(f.content)),
                      LAMBDA ln : ~StartsWith(ln, BudgetMark)))

\* The budget after load: that of the last budget line, if there is one.
FileBudget(budget_line, budget) ==
    IF budget_line # <<>> THEN BudgetOf(budget_line[1]) ELSE budget

\* The store and the messages after the loop over the rows ended with r.
Loaded(r, b) ==
    [expenses |-> r.expenses, monthly_budget |-> b,
     out |-> [op |-> "load", fresh |-> FALSE, skipped |-> r.skipped, error |-> r.error]]

\* load_expenses on a store holding (exp, budget): the store afterwards and
\* what was printed.
LoadExpenses(exp, budget, f) ==
    IF ~f.exists
    THEN [expenses |-> exp, monthly_budget |-> budget,
          out |-> [op |-> "load", fresh |-> TRUE, skipped |-> <<>>, error |-> FALSE]]
    ELSE Loaded(LoadRows(FileRows(f), 1, [expenses |-> exp, skipped |-> <<>>, error |-> FALSE]),
                FileBudget(LastBudgetLine(ReadLines(UniversalNewlines(f.content))), budget))

(***************************************************************************)
(* csv.DictWriter and save_expenses.                                       *)
(***************************************************************************)
\* The text the writer gives a value: None as '', a number by str().
FieldText(v) ==
    CASE v.t = "none" -> <<>>
      [] v.t = "str"  -> v.s
      [] OTHER        -> NumStr(v)

\* QUOTE_MINIMAL: a field is quoted when it holds the delimiter, the quote
\* character or a character of the line terminator "\r\n"; inside the
\* quotes a quote character is doubled.
NeedsQuotes(cs) == \E i \in 1..Len(cs) : cs[i] \in {",", "\"", "\r", "\n"}
RECURSIVE DoubleQuotes(_)
DoubleQuotes(cs) ==
    IF cs = <<>> THEN <<>>
    ELSE (IF Head(cs) = "\"" THEN <<"\"", "\"">> ELSE <<Head(cs)>>) \o DoubleQuotes(Tail(cs))
WriteField(cs) == IF NeedsQuotes(cs) THEN <<"\"">> \o DoubleQuotes(cs) \o <<"\"">> ELSE cs

\* writer.writerow(fields): the fields joined by ',' and ended by "\r\n".
WriteRow(fields) ==
    Concat([i \in 1..Len(fields) |->
               (IF i > 1 THEN <<",">> ELSE <<>>) \o WriteField(fields[i])]) \o <<"\r", "\n">>

\* DictWriter._dict_to_list: a key outside fieldnames raises ValueError
\* (extrasaction='raise'); a missing key is written as restval=''.
HasWrongFields(rowdict) == \E k \in DOMAIN rowdict : \A i \in 1..Len(fieldnames) : fieldnames[i] # k
DictToList(rowdict) ==
    [i \in 1..Len(fieldnames) |->
        IF fieldnames[i] \in DOMAIN rowdict THEN FieldText(rowdict[fieldnames[i]]) ELSE <<>>]

\* writer.writerows(expenses): rows are written one at a time, so the rows
\* before a raising one are already in the file.
RECURSIVE WriteRows(_, _, _)
WriteRows(exp, i, text) ==
    IF i > Len(exp) THEN [text |-> text, error |-> FALSE]
    ELSE IF HasWrongFields(exp[i]) THEN [text |-> text, error |-> TRUE]
    ELSE WriteRows(exp, i + 1, text \o WriteRow(DictToList(exp[i])))

\* save_expenses: the file is opened for writing (and so emptied), header
\* and rows are written when there are records, then the budget line; an
\* exception on the way is caught after the file is closed with what was
\* written until then.
Saved(w, budget) ==
    IF w.error
    THEN [file |-> FileOf(w.text), out |-> [op |-> "save", error |-> TRUE]]
    ELSE [file |-> FileOf(w.text \o BudgetMark \o NumStr(budget) \o <<"\n">>),
          out  |-> [op |-> "save", error |-> FALSE]]
SaveExpenses(exp, budget) ==
    Saved(IF exp # <<>> THEN WriteRows(exp, 1, WriteRow(fieldnames))
          ELSE [text |-> <<>>, error |-> FALSE],
          budget)

(***************************************************************************)
(* The validation of add_expense and set_budget.                           *)
(***************************************************************************)
DaysIn(y, m) ==
    IF m = 2 THEN (IF y % 4 = 0 /\ (y % 100 # 0 \/ y % 400 = 0) THEN 29 ELSE 28)
    ELSE IF m \in {4, 6, 9, 11} THEN 30 ELSE 31

\* datetime.strptime(s, "%Y-%m-%d") succeeds: four digits, a month of one
\* or two digits, a day of one or two digits (or a space and a digit), and
\* the date exists.
ValidYMD(y, m, day, d) ==
    /\ Len(y) = 4 /\ AllDigits(y) /\ DigitsVal(y) >= 1
    /\ Len(m) \in {1, 2} /\ AllDigits(m) /\ DigitsVal(m) \in 1..12
    /\ Len(day) \in {1, 2} /\ d # <<>> /\ AllDigits(d)
    /\ (Len(d) < Len(day) => d # <<"0">>)
    /\ DigitsVal(d) \in 1..DaysIn(DigitsVal(y), DigitsVal(m))
DateParts(parts) ==
    /\ Len(parts) = 3
    /\ ValidYMD(parts[1], parts[2], parts[3],
                IF parts[3] # <<>> /\ Head(parts[3]) = " " THEN Tail(parts[3]) ELSE parts[3])
ValidDate(s) == DateParts(Split(s, "-"))

\* The test both prompts for a number make: float() succeeds and the value
\* is not <= 0.
Accepted(r) == r.ok /\ ~NumLe(r.v, IntV(0))
AcceptedNumber(raw) == Accepted(ParseFloat(raw))

(***************************************************************************)
(* What the user types, and the files the program may find at startup.     *)
(***************************************************************************)
ChoiceInputs   == {<<"1">>, <<"2">>, <<"3">>, <<" ","4"," ">>, <<"5">>, <<"6">>, <<>>}
DateInputs     == {<<"2","0","2","4","-","0","3","-","0","1">>, <<"2","0","2","4","-","0","2","-","3","0">>}
CategoryInputs == {<<"F","o","o","d">>, <<"a","\f","b">>, <<" ">>}
AmountInputs   == {<<"1","2",".","5">>, <<"7","0">>, <<"0">>, <<"-","5">>, <<"a","b","c">>}
DescriptionInputs == {<<" ","s","a","y"," ","\"","h","i","\"",","," ","o","k">>, <<>>}
BudgetInputs   == {<<"5","0">>, <<"1","2",".","5">>, <<"n","a","n">>, <<"0">>, <<"-","1">>, <<"x">>}

Header == <<"d","a","t","e",",","c","a","t","e","g","o","r","y",",","a","m","o","u","n","t",",","d","e","s","c","r","i","p","t","i","o","n","\r","\n">>
\* Data lines: a complete row, a row with text for an amount, a row that
\* stops before the amount, a row that stops before the description, a row
\* with a surplus field, and a row with a negative amount.
RowLines ==
    {<<"2","0","2","4","-","0","3","-","0","1",",","F","o","o","d",",","1","2",".","5",",","L","u","n","c","h","\r","\n">>,
     <<"2","0","2","4","-","0","3","-","0","2",",","F","o","o","d",",","a","b","c",",","S","n","a","c","k","\r","\n">>,
     <<"2","0","2","4","-","0","3","-","0","3",",","F","o","o","d","\r","\n">>,
     <<"2","0","2","4","-","0","3","-","0","4",",","F","o","o","d",",","5","\r","\n">>,
     <<"2","0","2","4","-","0","3","-","0","5",",","F","o","o","d",",","7",".","5",",","T","a","x","i",",","e","x","t","r","a","\r","\n">>,
     <<"2","0","2","4","-","0","3","-","0","6",",","F","o","o","d",",","-","5",",","R","e","f","u","n","d","\r","\n">>}
\* The end of the file: no budget line, a budget line with a positive or a
\* negative number, or two budget lines of which the last holds no number.
BudgetTails ==
    {<<>>,
     <<"#","B","U","D","G","E","T",",","5","0",".","0","\n">>,
     <<"#","B","U","D","G","E","T",",","-","5",".","5","\n">>,
     <<"#","B","U","D","G","E","T",",","5","0",".","0","\n","#","B","U","D","G","E","T",",","a","b","c","\n">>}
\* The data lines of a startup file: up to MaxRows lines, no line twice.
RowSeqs ==
    UNION {{rows \in [1..n -> RowLines] : \A i, j \in 1..n : rows[i] = rows[j] => i = j} :
              n \in 0..MaxRows}
\* No file, or a file laid out as save_expenses lays it out: the header when
\* there are rows, the rows, the budget lines.
StartupFiles ==
    {NoFile} \cup {FileOf((IF rows # <<>> THEN Header ELSE <<>>) \o Concat(rows) \o tail) :
                      rows \in RowSeqs, tail \in BudgetTails}

(***************************************************************************)
(* The program.                                                            *)
(***************************************************************************)
VARIABLES
    file,            \* expenses.csv
    expenses,        \* self.expenses
    monthly_budget,  \* self.monthly_budget
    pc,              \* "init" before __init__ has run, "menu" in the loop of run(), "done" after it
    out              \* what the last operation printed

vars == <<file, expenses, monthly_budget, pc, out>>

\* __init__ before load_expenses, with the file as the program finds it.
Init ==
    /\ file \in StartupFiles
    /\ expenses = <<>>
    /\ monthly_budget = IntV(0)
    /\ pc = "init"
    /\ out = [op |-> "none"]

\* __init__: load_expenses, then run() shows the menu.
StoreBecomes(r) ==
    /\ expenses' = r.expenses
    /\ monthly_budget' = r.monthly_budget
    /\ out' = r.out
load_expenses ==
    /\ pc = "init"
    /\ StoreBecomes(LoadExpenses(expenses, monthly_budget, file))
    /\ pc' = "menu"
    /\ UNCHANGED file

\* A store that would put a new record first: what C9 rules out.
PrependExpense(exp, expense) == <<expense>> \o exp

\* self.expenses.append(expense)
AppendExpense(exp, expense) == Append(exp, expense)

\* add_expense: each prompt is repeated until its input passes, so the
\* operation ends with one input of each kind that passed.
add_expense ==
    /\ Len(expenses) < MaxExpenses
    /\ \E date_in \in DateInputs :
        /\ ValidDate(Strip(date_in))
        /\ \E category_in \in CategoryInputs :
            /\ Strip(category_in) # <<>>
            /\ \E amount_in \in AmountInputs :
                /\ AcceptedNumber(amount_in)
                /\ \E description_in \in DescriptionInputs :
                    /\ Strip(description_in) # <<>>
                    /\ expenses' = AppendExpense(expenses,
                                       (DATE :> StrV(Strip(date_in)))
                                       @@ (CATEGORY :> StrV(Strip(category_in)))
                                       @@ (AMOUNT :> ParseFloat(amount_in).v)
                                       @@ (DESCRIPTION :> StrV(Strip(description_in))))
                    /\ out' = [op |-> "add"]
    /\ UNCHANGED <<file, monthly_budget, pc>>

\* A total that would count every record with the four keys, whatever their
\* values: what C8 rules out.
HasAllKeys(expense) == \A i \in 1..Len(fieldnames) : fieldnames[i] \in DOMAIN expense

\* all(key in expense and expense[key] for key in [...])
WellFormed(expense) ==
    \A i \in 1..Len(fieldnames) :
        fieldnames[i] \in DOMAIN expense /\ Truthy(expense[fieldnames[i]])

\* sum(expense['amount'] for expense in exp if <well-formed>), from 0.
RECURSIVE TotalExpenses(_, _)
TotalExpenses(exp, n) ==
    IF n = 0 THEN IntV(0)
    ELSE IF WellFormed(exp[n])
         THEN NumAdd(TotalExpenses(exp, n - 1), exp[n][AMOUNT])
         ELSE TotalExpenses(exp, n - 1)

\* view_expenses: the rows shown, the entries passed over and the total.
view_expenses ==
    /\ out' = IF expenses = <<>> THEN [op |-> "view", empty |-> TRUE]
              ELSE [op |-> "view", empty |-> FALSE,
                    shown |-> SelectSeq(expenses, WellFormed),
                    incomplete |-> Len(expenses) - Len(SelectSeq(expenses, WellFormed)),
                    total |-> TotalExpenses(expenses, Len(expenses))]
    /\ UNCHANGED <<file, expenses, monthly_budget, pc>>

\* A test that would also take a negative budget for unset: what C10 rules
\* out.
BudgetNotPositive(budget) == NumLe(budget, IntV(0))

\* if self.monthly_budget == 0
BudgetUnset(budget) == NumEq(budget, IntV(0))

\* The report of track_budget when a budget is set.
Report(total_expenses, budget) ==
    IF NumGt(total_expenses, budget)
    THEN [op |-> "track", kind |-> "exceeded", budget |-> budget,
          total |-> total_expenses, amount |-> NumSub(total_expenses, budget)]
    ELSE [op |-> "track", kind |-> "left", budget |-> budget,
          total |-> total_expenses, amount |-> NumSub(budget, total_expenses)]
BudgetReport(exp, budget) == Report(TotalExpenses(exp, Len(exp)), budget)

\* set_budget: the prompt is repeated until the input passes, so the
\* operation ends with one input that passed.
set_budget ==
    \E budget_in \in BudgetInputs :
        /\ AcceptedNumber(budget_in)
        /\ monthly_budget' = ParseFloat(budget_in).v

\* track_budget: without a budget it runs set_budget and returns.
track_budget ==
    /\ IF BudgetUnset(monthly_budget)
       THEN /\ set_budget
            /\ out' = [op |-> "track", kind |-> "set_budget"]
       ELSE /\ out' = BudgetReport(expenses, monthly_budget)
            /\ UNCHANGED monthly_budget
    /\ UNCHANGED <<file, expenses, pc>>

\* save_expenses
FileBecomes(r) == file' = r.file /\ out' = r.out
save_expenses ==
    /\ FileBecomes(SaveExpenses(expenses, monthly_budget))
    /\ UNCHANGED <<expenses, monthly_budget>>

\* One turn of the loop of run(): the choice is stripped and dispatched.
run(choice) ==
    \/ pc = "menu" /\ Strip(choice) = <<"1">> /\ add_expense
    \/ pc = "menu" /\ Strip(choice) = <<"2">> /\ view_expenses
    \/ pc = "menu" /\ Strip(choice) = <<"3">> /\ track_budget
    \/ pc = "menu" /\ Strip(choice) = <<"4">> /\ save_expenses /\ UNCHANGED pc
    \/ pc = "menu" /\ Strip(choice) = <<"5">> /\ save_expenses /\ pc' = "done"
    \/ /\ pc = "menu"
       /\ Strip(choice) \notin {<<"1">>, <<"2">>, <<"3">>, <<"4">>, <<"5">>}
       /\ out' = [op |-> "invalid"]
       /\ UNCHANGED <<file, expenses, monthly_budget, pc>>

Next == load_expenses \/ \E choice \in ChoiceInputs : run(choice)

Spec == Init /\ [][Next]_vars

(***************************************************************************)
(* The claims.                                                             *)
(***************************************************************************)
\* The store of a fresh tracker after load_expenses on file f.
Reload(f) == LoadExpenses(<<>>, IntV(0), f)
\* save_expenses of (exp, budget), then load_expenses into a fresh store.
SavedThenLoaded(exp, budget) == Reload(SaveExpenses(exp, budget).file)
\* The same number: equal values, or nan on both sides.
SameNumber(a, b) == NumEq(a, b) \/ (a.t = "nan" /\ b.t = "nan")
\* Saving (exp, budget) and loading gives the same records and budget back.
RoundTrips(exp, budget) ==
    /\ SavedThenLoaded(exp, budget).expenses = exp
    /\ SameNumber(SavedThenLoaded(exp, budget).monthly_budget, budget)
\* A stripped, non-empty string.
EnteredText(v) == v.t = "str" /\ v.s # <<>> /\ Strip(v.s) = v.s
\* A record as add_expense builds it: the four fields, a valid date, entered
\* texts and a float greater than 0.
BuiltByAddExpense(e) ==
    /\ DOMAIN e = {DATE, CATEGORY, AMOUNT, DESCRIPTION}
    /\ EnteredText(e[DATE]) /\ ValidDate(e[DATE].s)
    /\ EnteredText(e[CATEGORY])
    /\ EnteredText(e[DESCRIPTION])
    /\ e[AMOUNT].t = "float" /\ e[AMOUNT].n > 0
\* The state right after the startup load of an existing file.
AfterLoad == pc = "menu" /\ out.op = "load" /\ ~out.fresh
\* Rows of the file by their amount field: text that is a number, text that
\* is none, and no field at all (the line ends before it).
NumericAmount(row) ==
    AMOUNT \in DOMAIN row /\ row[AMOUNT].t = "str" /\ ParseFloat(row[AMOUNT].s).ok
NonNumericAmount(row) ==
    AMOUNT \in DOMAIN row /\ row[AMOUNT].t = "str" /\ ~ParseFloat(row[AMOUNT].s).ok
AbsentAmount(row) == AMOUNT \in DOMAIN row /\ row[AMOUNT] = None
\* The records of the rows whose amount is a number, in file order.
ValidRecords(rows) ==
    LET valid == SelectSeq(rows, NumericAmount)
    IN  [i \in 1..Len(valid) |-> [valid[i] EXCEPT ![AMOUNT] = ParseFloat(valid[i][AMOUNT].s).v]]
\* The elements of a sequence.
Range(seq) == {seq[i] : i \in 1..Len(seq)}
\* The lines of the file as it stands.
FileLines == ReadLines(UniversalNewlines(file.content))

\* C1: every record sequence built by AddExpense, with the budget of the
\* store, comes back the same from save_expenses followed by load_expenses
\* into a fresh store: same records, same order, same four values, same
\* budget.  The code breaks this for a text holding a line boundary of
\* str.splitlines() other than "\n" and "\r" (here the form feed): load
\* splits the joined lines again and the row falls apart.
C1_SaveLoadRoundTrip ==
    (pc = "menu" /\ \A i \in 1..Len(expenses) : BuiltByAddExpense(expenses[i]))
        => RoundTrips(expenses, monthly_budget)
\* C1, the failing state: a record entered with a form feed in its category
\* is in the store, and loading what save writes aborts.
C1_FormFeedBreaksReload ==
    /\ pc = "menu"
    /\ \A i \in 1..Len(expenses) : BuiltByAddExpense(expenses[i])
    /\ \E i \in 1..Len(expenses) : "\f" \in Range(expenses[i][CATEGORY].s)
    /\ SavedThenLoaded(expenses, monthly_budget).out.error

\* C2: for every file content, loading it, saving the store unchanged and
\* loading the saved file gives the state of the first load.  The code
\* breaks this for a row that ends before its description (None is saved
\* as '' and loaded as '') and for a row with surplus fields (save fails).
C2_LoadSaveLoadIdempotent == AfterLoad => RoundTrips(expenses, monthly_budget)
\* C2, the failing state: a record loaded without description comes back
\* from save and load with the empty string for it.
C2_NoneBecomesEmpty ==
    /\ AfterLoad
    /\ Len(SavedThenLoaded(expenses, monthly_budget).expenses) = Len(expenses)
    /\ \E i \in 1..Len(expenses) :
          /\ expenses[i][DESCRIPTION] = None
          /\ SavedThenLoaded(expenses, monthly_budget).expenses[i][DESCRIPTION] = StrV(<<>>)

\* C3: when the file holds a row whose amount is text that is no number,
\* the load does not abort, and the store holds exactly the rows with a
\* numeric amount, in file order (so not that row).  The code breaks this
\* when the file also holds a row that ends before its amount (C4).
C3_NonNumericRowSkipped ==
    (AfterLoad /\ \E i \in 1..Len(FileRows(file)) : NonNumericAmount(FileRows(file)[i]))
        => /\ ~out.error
           /\ expenses = ValidRecords(FileRows(file))
\* C3, the failing state: the row with the text amount was skipped, and the
\* load then aborted.
C3_AbortAfterSkip ==
    /\ AfterLoad
    /\ out.error
    /\ \E i \in 1..Len(out.skipped) : NonNumericAmount(out.skipped[i])

\* C4: when a row of the file ends before its amount, the load skips that
\* row, reports it as skipped, is not aborted, and loads every other row
\* with a numeric amount.  In the code float(None) raises TypeError, which
\* the handler of the row does not catch: the load ends at that row.
C4_IncompleteRowSkipped ==
    (AfterLoad /\ \E i \in 1..Len(FileRows(file)) : AbsentAmount(FileRows(file)[i]))
        => /\ ~out.error
           /\ \A i \in 1..Len(FileRows(file)) :
                 AbsentAmount(FileRows(file)[i]) => FileRows(file)[i] \in Range(out.skipped)
           /\ expenses = ValidRecords(FileRows(file))
\* C4, the failing state: the load aborted at a row without amount, the row
\* is not reported as skipped, and a row with a numeric amount is missing.
C4_RowsAfterLost ==
    /\ AfterLoad
    /\ out.error
    /\ out.skipped = <<>>
    /\ \E i \in 1..Len(FileRows(file)) : AbsentAmount(FileRows(file)[i])
    /\ Len(expenses) < Len(ValidRecords(FileRows(file)))

\* C5: after Exit the file exists and holds exactly one "#BUDGET," line, as
\* its last line and with the budget of the store; with no records it is
\* the only line.  (The loop halts only through choice 5, which saves: that
\* is how pc becomes "done".)  The code breaks this when a loaded record
\* has surplus fields: writerows raises, and the budget line is not written.
C5_ExitLeavesBudgetLine ==
    pc = "done"
        => /\ file.exists
           /\ Len(SelectSeq(FileLines, LAMBDA ln : StartsWith(ln, BudgetMark))) = 1
           /\ FileLines[Len(FileLines)] = BudgetMark \o NumStr(monthly_budget) \o <<"\n">>
           /\ (expenses = <<>> => Len(FileLines) = 1)
\* C5, the failing state: after Exit the save has failed and the file holds
\* no budget line.
C5_ExitWithoutBudgetLine ==
    /\ pc = "done"
    /\ out = [op |-> "save", error |-> TRUE]
    /\ \E i \in 1..Len(expenses) : RestKey \in DOMAIN expenses[i]
    /\ SelectSeq(FileLines, LAMBDA ln : StartsWith(ln, BudgetMark)) = <<>>

\* C6: in every state every record of the store has an amount greater than
\* 0.  The code loads every row whose amount is a number, negative ones
\* included.
C6_AmountsPositive ==
    \A i \in 1..Len(expenses) :
        AMOUNT \in DOMAIN expenses[i] /\ NumGt(expenses[i][AMOUNT], IntV(0))
\* C6, the failing state: a record with a negative amount was loaded.
C6_NegativeAmountLoaded ==
    /\ AfterLoad
    /\ \E i \in 1..Len(expenses) : expenses[i][AMOUNT].t = "float" /\ expenses[i][AMOUNT].n < 0

\* C7: in every state the budget is greater than or equal to 0.  The code
\* takes the number of the last "#BUDGET," line as it is, negative or not
\* (and set_budget takes nan, which no comparison turns away).
C7_BudgetNonNegative == NumLe(IntV(0), monthly_budget)
\* C7, the failing state: a negative budget was loaded.
C7_NegativeBudgetLoaded ==
    AfterLoad /\ monthly_budget.t = "float" /\ monthly_budget.n < 0

\* The sum of the amounts of the records that hold the four fields with
\* truthy values, from the first record on.
RECURSIVE SumWellFormed(_, _, _)
SumWellFormed(exp, i, sum) ==
    IF i > Len(exp) THEN sum
    ELSE SumWellFormed(exp, i + 1,
             IF /\ {DATE, CATEGORY, AMOUNT, DESCRIPTION} \subseteq DOMAIN exp[i]
                /\ \A k \in {DATE, CATEGORY, AMOUNT, DESCRIPTION} : Truthy(exp[i][k])
             THEN NumAdd(sum, exp[i][AMOUNT]) ELSE sum)

\* C8: a step of TrackBudget with budget 0 runs SetBudget (the budget
\* becomes a number that is not 0 or less) and reports no spend; with any
\* other budget it reports that budget, the total over exactly the
\* well-formed records, and the overspend total - budget when total >
\* budget, else the remaining budget - total; the records, and in the
\* second case the budget, are unchanged.
C8_TrackBudgetResult ==
    [][(pc = "menu" /\ out'.op = "track")
          => /\ expenses' = expenses
             /\ IF NumEq(monthly_budget, IntV(0))
                THEN /\ out' = [op |-> "track", kind |-> "set_budget"]
                     /\ IsNumber(monthly_budget')
                     /\ ~NumLe(monthly_budget', IntV(0))
                ELSE /\ monthly_budget' = monthly_budget
                     /\ out'.budget = monthly_budget
                     /\ out'.total = SumWellFormed(expenses, 1, IntV(0))
                     /\ IF NumGt(out'.total, monthly_budget)
                        THEN /\ out'.kind = "exceeded"
                             /\ out'.amount = NumSub(out'.total, monthly_budget)
                        ELSE /\ out'.kind = "left"
                             /\ out'.amount = NumSub(monthly_budget, out'.total)]_vars
\* C8, the case: TrackBudget reported an overspend of a positive budget
\* while the store held an entered record and a loaded one with an amount
\* but without description, which the total passes over.
C8_OverspendWithIllFormed ==
    /\ out.op = "track" /\ out.kind = "exceeded"
    /\ \E i \in 1..Len(expenses) :
          expenses[i][DESCRIPTION] = None /\ NumGt(expenses[i][AMOUNT], IntV(0))
    /\ \E i \in 1..Len(expenses) : BuiltByAddExpense(expenses[i])
    /\ NumGt(monthly_budget, IntV(0))

\* C9: after the startup load every step keeps the records it found as a
\* prefix of the store; the store changes only in AddExpense, by one record
\* at the end; ViewExpenses, TrackBudget (with SetBudget), Save, Exit and an
\* unrecognized choice leave it as it is.
C9_AppendOnly ==
    [][pc = "menu"
          => /\ Len(expenses') >= Len(expenses)
             /\ SubSeq(expenses', 1, Len(expenses)) = expenses
             /\ (expenses' # expenses
                    => out'.op = "add" /\ Len(expenses') = Len(expenses) + 1)
             /\ (out'.op \in {"view", "track", "save", "invalid"}
                    => expenses' = expenses)]_vars
\* C9, the case: AddExpense has appended to a store that held a loaded
\* ill-formed record, which is still first.
C9_AppendedAfterLoaded ==
    /\ out.op = "add"
    /\ Len(expenses) = 2
    /\ expenses[1][DESCRIPTION] = None
    /\ BuiltByAddExpense(expenses[2])

\* C10: once the budget is not 0, no step of the menu loop changes it; a
\* step changes the budget only as TrackBudget entering SetBudget from
\* budget 0.
C10_BudgetSetOnce ==
    [][pc = "menu"
          => /\ (~NumEq(monthly_budget, IntV(0)) => monthly_budget' = monthly_budget)
             /\ (monthly_budget' # monthly_budget
                    => out' = [op |-> "track", kind |-> "set_budget"])]_vars
\* C10, the case: with no file at startup and none saved since, the budget
\* was set through TrackBudget, and a later TrackBudget reported against it.
C10_TrackedAfterSet ==
    /\ ~file.exists
    /\ out.op = "track" /\ out.kind \in {"left", "exceeded"}
    /\ ~NumEq(monthly_budget, IntV(0))

====
